---- MODULE Spec2Model ----
(***************************************************************************)
(* Model of the rag-system repository: the token-window chunker            *)
(* (src/src/ingest/chunking.py), the answer generator                      *)
(* (src/src/generation.py) and the per-video embedding store               *)
(* (src/src/embeddings.py).                                                *)
(*                                                                         *)
(* Text is a sequence of one-character strings; offsets are 0-based as in  *)
(* Python, so the character at offset k of text t is t[k + 1].             *)
(***************************************************************************)
EXTENDS Integers, Sequences, FiniteSets, TLC

-----------------------------------------------------------------------------
(* State *)

VARIABLES
    doc,                    \* the document handed to make_chunks
    chunk_size_tokens,      \* its chunk_size_tokens argument
    chunk_overlap_tokens,   \* its chunk_overlap_tokens argument
    chunkResult,            \* what the latest make_chunks call did
    firstResult,            \* what the first make_chunks call did
    chunkCalls,             \* number of make_chunks calls so far
    pc,                     \* where generate_answer stands
    query,                  \* its query argument
    retrieval_results,      \* the list the retriever returned
    promptChunks,           \* the list handed to format_context_for_llm
    response,               \* the GenerationResponse returned
    retrieverError,         \* the exception the retriever raised
    raised,                 \* the exception that left generate_answer
    completionError,        \* the exception the completion call raised
    callLog,                \* the external calls issued, in order
    ui,                     \* the dict built by format_response_for_ui
    collections,            \* the vector index: collection name -> id -> item
    storeCall,              \* the latest embed_and_store call and what it did
    ingestCall,             \* the latest ingest_video run and what it did
    retrievalCall,          \* the latest retrieval call and what it did
    cliCall,                \* the latest ask, summarize or list command
    document_content,       \* document.content handed to chunk_document
    chunk_size_arg,         \* its chunk_size argument, 0 when omitted
    self_chunk_size,        \* self.chunk_size of the PDFDocumentProcessor
    loop_start,             \* start, the window start of the loop
    prev_start,             \* the window start one iteration earlier
    chunk_index,            \* the index of the next chunk
    pdfChunks,              \* the chunks appended so far
    pdfPc,                  \* where chunk_document stands
    iterations              \* loop iterations of the running call

chunkVars == <<doc, chunk_size_tokens, chunk_overlap_tokens,
               chunkResult, firstResult, chunkCalls>>

answerVars == <<pc, query, retrieval_results, promptChunks, response,
                retrieverError, raised,
                completionError, callLog, ui>>

storeVars == <<collections, storeCall, ingestCall, retrievalCall, cliCall>>

pdfVars == <<document_content, chunk_size_arg, self_chunk_size, loop_start,
             prev_start, chunk_index, pdfChunks, pdfPc, iterations>>

vars == <<chunkVars, answerVars, storeVars, pdfVars>>

-----------------------------------------------------------------------------
(* Bounds of the model *)

MaxTextLen == 5
MaxChunkSize == 3
MaxCalls == 2
MaxResults == 2
MaxStoreChunks == 2

Chars == {"a", "b", " "}

-----------------------------------------------------------------------------
(* Python string helpers, as the interpreter computes them *)

IsSpace(c) == c = " "

Min(a, b) == IF a <= b THEN a ELSE b

RECURSIVE SplitFrom(_, _, _)
SplitFrom(text, k, cur) ==
    IF k >= Len(text)
    THEN IF cur = <<>> THEN <<>> ELSE <<cur>>
    ELSE IF IsSpace(text[k + 1])
         THEN IF cur = <<>>
              THEN SplitFrom(text, k + 1, <<>>)
              ELSE <<cur>> \o SplitFrom(text, k + 1, <<>>)
         ELSE SplitFrom(text, k + 1, Append(cur, text[k + 1]))

\* str.split() without arguments: the maximal runs of non-whitespace
Split(text) == SplitFrom(text, 0, <<>>)

\* str.find(w, pos): the lowest offset >= pos at which w occurs, or -1
Find(text, w, pos) ==
    LET hits == {k \in pos .. (Len(text) - Len(w)) :
                    SubSeq(text, k + 1, k + Len(w)) = w}
    IN  IF hits = {} THEN -1
        ELSE CHOOSE k \in hits : \A m \in hits : k <= m

RECURSIVE Join(_)
\* " ".join(words)
Join(words) ==
    IF words = <<>> THEN <<>>
    ELSE IF Len(words) = 1 THEN words[1]
    ELSE words[1] \o <<" ">> \o Join(Tail(words))

\* Python slice s[i:j] for 0 <= i, j
Slice(s, i, j) == SubSeq(s, i + 1, Min(j, Len(s)))

RECURSIVE Digits(_)
Digits(n) == IF n < 10 THEN <<n>> ELSE Append(Digits(n \div 10), n % 10)

RECURSIVE PadLeft(_, _)
PadLeft(ds, width) == IF Len(ds) >= width THEN ds ELSE PadLeft(<<0>> \o ds, width)

-----------------------------------------------------------------------------
(* make_chunks *)

SeqWidth == 4

\* _seq(n): f"{n:04d}"
SeqSuffix(n) == PadLeft(Digits(n), SeqWidth)

\* f"{doc_id}:{_seq(chunk_counter)}"
ChunkId(doc_id, chunk_counter) == <<doc_id, ":">> \o SeqSuffix(chunk_counter)

ConfigErrorNoNegativeCheck(chunk_size, overlap) ==
    chunk_size <= 0 \/ overlap >= chunk_size

\* the parameter checks at the head of make_chunks
ConfigError(chunk_size, overlap) ==
    \/ chunk_size <= 0
    \/ overlap < 0
    \/ overlap >= chunk_size

NextPosNoAdvance(found_at, w) == found_at

\* pos = found_at + len(w)
NextPos(found_at, w) == found_at + Len(w)

\* the search restarted from offset 0 for every word
FoundAtFromStart(text, w, pos) ==
    LET again == Find(text, w, 0)
    IN  IF again /= -1 THEN again ELSE pos

\* the offset recorded for word w when the search pointer is at pos
FoundAt(text, w, pos) ==
    LET first == Find(text, w, pos)
    IN  IF first /= -1 THEN first
        ELSE LET again == Find(text, w, 0)
             IN  IF again /= -1 THEN again ELSE pos

RECURSIVE WordStartsFrom(_, _, _, _)
WordStartsFrom(text, words, k, pos) ==
    IF k > Len(words) THEN <<>>
    ELSE LET found_at == FoundAt(text, words[k], pos)
         IN  <<found_at>> \o
             WordStartsFrom(text, words, k + 1, NextPos(found_at, words[k]))

WordStarts(text, words) == WordStartsFrom(text, words, 1, 0)

WindowPlusOne(chunk_size) == chunk_size + 1

Window(chunk_size) == chunk_size

StepPlusOne(chunk_size, overlap) == chunk_size - overlap + 1

Step(chunk_size, overlap) == chunk_size - overlap

Metadata(d) ==
    [doc_id |-> d.doc_id, title |-> d.title, source_path |-> d.source_path]

\* the chunk dict built for the window words[i:j]
MakeChunk(d, words, word_starts, i, j, chunk_counter) ==
    LET chunk_words == Slice(words, i, j)
        span == IF Len(chunk_words) > 0
                THEN <<word_starts[i + 1],
                       word_starts[j] + Len(words[j])>>
                ELSE <<0, 0>>
    IN  [chunk_id |-> ChunkId(d.doc_id, chunk_counter),
         text |-> Join(chunk_words),
         char_span |-> span,
         token_estimate |-> Len(chunk_words),
         metadata |-> Metadata(d)]

RECURSIVE SlideNoBreak(_, _, _, _, _, _, _, _)
\* the while loop without the break taken when the window reached the end
SlideNoBreak(d, words, word_starts, window, step, i, chunk_counter, chunks) ==
    IF ~(i < Len(words)) THEN chunks
    ELSE LET j == Min(i + window, Len(words))
             out == Append(chunks,
                       MakeChunk(d, words, word_starts, i, j, chunk_counter + 1))
         IN  SlideNoBreak(d, words, word_starts, window, step,
                          i + step, chunk_counter + 1, out)

RECURSIVE Slide(_, _, _, _, _, _, _, _)
\* the while loop: i is the window start, chunk_counter the chunks emitted
Slide(d, words, word_starts, window, step, i, chunk_counter, chunks) ==
    IF ~(i < Len(words)) THEN chunks
    ELSE LET j == Min(i + window, Len(words))
             out == Append(chunks,
                       MakeChunk(d, words, word_starts, i, j, chunk_counter + 1))
         IN  IF j = Len(words) THEN out
             ELSE Slide(d, words, word_starts, window, step,
                        i + step, chunk_counter + 1, out)

\* the chunk emitted when the loop produced none
FallbackChunk(d, words) ==
    [chunk_id |-> ChunkId(d.doc_id, 1),
     text |-> d.raw_text,
     char_span |-> <<0, Len(d.raw_text)>>,
     token_estimate |-> Len(words),
     metadata |-> Metadata(d)]

Raise(e) == [kind |-> "raise", error |-> e]
Return(v) == [kind |-> "return", value |-> v]
NotCalled == [kind |-> "none"]

\* make_chunks without the early return for a buffer that holds no word
make_chunks_no_empty_return(d, chunk_size, overlap) ==
    IF ConfigError(chunk_size, overlap) THEN Raise("ValueError")
    ELSE LET words == Split(d.raw_text)
             chunks == Slide(d, words, WordStarts(d.raw_text, words),
                             Window(chunk_size), Step(chunk_size, overlap),
                             0, 0, <<>>)
         IN  IF chunks = <<>>
             THEN Return(<<FallbackChunk(d, words)>>)
             ELSE Return(chunks)

\* make_chunks with chunk_counter kept across calls instead of reset to 0
make_chunks_counter_kept(d, chunk_size, overlap) ==
    IF ConfigError(chunk_size, overlap) THEN Raise("ValueError")
    ELSE LET words == Split(d.raw_text)
             carried == IF chunkResult.kind = "return"
                        THEN Len(chunkResult.value) ELSE 0
         IN  IF Len(words) = 0 THEN Return(<<>>)
             ELSE Return(Slide(d, words, WordStarts(d.raw_text, words),
                               Window(chunk_size), Step(chunk_size, overlap),
                               0, carried, <<>>))

make_chunks(d, chunk_size, overlap) ==
    IF ConfigError(chunk_size, overlap) THEN Raise("ValueError")
    ELSE LET words == Split(d.raw_text)
         IN  IF Len(words) = 0 THEN Return(<<>>)
             ELSE LET word_starts == WordStarts(d.raw_text, words)
                      chunks == Slide(d, words, word_starts, Window(chunk_size),
                                      Step(chunk_size, overlap), 0, 0, <<>>)
                  IN  IF chunks = <<>>
                      THEN Return(<<FallbackChunk(d, words)>>)
                      ELSE Return(chunks)

-----------------------------------------------------------------------------
(* The chunker: inputs are drawn by ChunkInit, MakeChunks applies make_chunks *)

Texts == UNION {[1 .. n -> Chars] : n \in 0 .. MaxTextLen}

Docs == {[doc_id |-> "doc", title |-> "T", source_path |-> "p.txt",
          raw_text |-> t] : t \in Texts}

WindowArgs == -1 .. MaxChunkSize

ChunkInit ==
    /\ doc \in Docs
    /\ chunk_size_tokens \in WindowArgs
    /\ chunk_overlap_tokens \in WindowArgs
    /\ chunkResult = NotCalled
    /\ firstResult = NotCalled
    /\ chunkCalls = 0

\* the chunker at rest, for the flows that do not chunk
ChunkIdle ==
    /\ doc = [doc_id |-> "doc", title |-> "T", source_path |-> "p.txt",
              raw_text |-> <<>>]
    /\ chunk_size_tokens = 1
    /\ chunk_overlap_tokens = 0
    /\ chunkResult = NotCalled
    /\ firstResult = NotCalled
    /\ chunkCalls = 0

\* one call of make_chunks on the drawn document and window configuration
MakeChunks ==
    /\ chunkCalls < MaxCalls
    /\ chunkResult' = make_chunks(doc, chunk_size_tokens, chunk_overlap_tokens)
    /\ firstResult' = IF chunkCalls = 0 THEN chunkResult' ELSE firstResult
    /\ chunkCalls' = chunkCalls + 1
    /\ UNCHANGED <<doc, chunk_size_tokens, chunk_overlap_tokens>>
    /\ UNCHANGED <<answerVars, storeVars, pdfVars>>

-----------------------------------------------------------------------------
(* YouTubeRAGGenerator.generate_answer and format_response_for_ui.          *)
(* The retriever and the completion service are external: what they return *)
(* or raise is drawn by the action that receives it.                       *)

\* Optional values: None is the empty sequence, a present value x is <<x>>
None == <<>>
Some(x) == <<x>>

\* config.generation_model
Model == "gpt-5-mini"

Queries == {"q1", "q2"}

\* the RetrievalResult objects the retriever may return
RetrievalResults ==
    {[title |-> "V", display_range |-> "0:00-0:10", content |-> <<"x", "y">>,
      jump_url |-> "u&t=0s", similarity_score |-> 90],
     [title |-> "V", display_range |-> "0:10-0:20", content |-> <<"z">>,
      jump_url |-> "u&t=10s", similarity_score |-> 70],
     [title |-> "W", display_range |-> "1:00-1:30", content |-> <<>>,
      jump_url |-> "w&t=60s", similarity_score |-> 40]}

RetrievedLists == UNION {[1 .. n -> RetrievalResults] : n \in 0 .. MaxResults}

CannedText ==
    "I couldn't find any relevant information in the video transcripts to answer your question."

\* the answer string of the empty-result response
CannedAnswer == <<CannedText>>

\* f"Sorry, I encountered an error generating the response: {str(e)}"
ErrorAnswer(e) ==
    <<"Sorry, I encountered an error generating the response: ", e>>

\* response.choices[0].message.content: any text, the canned sentence included
CompletionTexts == {"The video explains x.", CannedText}

\* response.usage.total_tokens if response.usage else None
Usages == {None, Some(17)}

Errors == {"timeout", "rate limit"}

NoResultsNeverTaken(results) == FALSE

\* if not retrieval_results
NoResults(results) == results = <<>>

EmptyResponse(q) ==
    [answer |-> CannedAnswer, sources |-> <<>>, query |-> q,
     model_used |-> Model, tokens_used |-> None]

Reverse(s) == [n \in 1 .. Len(s) |-> s[Len(s) + 1 - n]]

SuccessResponseSourcesReversed(q, results, answer, tokens_used) ==
    [answer |-> <<answer>>, sources |-> Reverse(results), query |-> q,
     model_used |-> Model, tokens_used |-> tokens_used]

SuccessResponse(q, results, answer, tokens_used) ==
    [answer |-> <<answer>>, sources |-> results, query |-> q,
     model_used |-> Model, tokens_used |-> tokens_used]

FailureResponseSourcesLost(q, results, e) ==
    [answer |-> ErrorAnswer(e), sources |-> <<>>, query |-> q,
     model_used |-> Model, tokens_used |-> None]

FailureResponseCanned(q, results, e) ==
    [answer |-> CannedAnswer, sources |-> results, query |-> q,
     model_used |-> Model, tokens_used |-> None]

\* the response built by the except branch
FailureResponse(q, results, e) ==
    [answer |-> ErrorAnswer(e), sources |-> results, query |-> q,
     model_used |-> Model, tokens_used |-> None]

CallsAfterCompletionErrorRetried(log) == Append(log, "complete")

\* the except branch returns at once: it issues no further call
CallsAfterCompletionError(log) == log

PreviewLimit == 150

\* source.content[:150] + "..." if len(source.content) > 150 else source.content
ContentPreview(content) ==
    IF Len(content) > PreviewLimit
    THEN Slice(content, 0, PreviewLimit) \o <<"...">>
    ELSE content

SourceDict(i, source) ==
    [number |-> i,
     title |-> source.title,
     time_range |-> source.display_range,
     content_preview |-> ContentPreview(source.content),
     jump_url |-> source.jump_url,
     similarity |-> source.similarity_score]

format_response_for_ui(r) ==
    [answer |-> r.answer,
     query |-> r.query,
     sources |-> [i \in 1 .. Len(r.sources) |-> SourceDict(i, r.sources[i])],
     model_info |-> [model |-> r.model_used, tokens_used |-> r.tokens_used],
     source_count |-> Len(r.sources)]

AnswerInit ==
    /\ pc = "idle"
    /\ query \in Queries
    /\ retrieval_results = None
    /\ promptChunks = None
    /\ response = None
    /\ retrieverError = None
    /\ raised = None
    /\ completionError = None
    /\ callLog = <<>>
    /\ ui = None

\* the generator at rest, for the flows that do not answer
AnswerIdle ==
    /\ pc = "idle"
    /\ query = "q1"
    /\ retrieval_results = None
    /\ promptChunks = None
    /\ response = None
    /\ retrieverError = None
    /\ raised = None
    /\ completionError = None
    /\ callLog = <<>>
    /\ ui = None

\* generate_answer is entered and calls self.retriever.retrieve
CallRetriever ==
    /\ pc = "idle"
    /\ pc' = "retrieving"
    /\ callLog' = Append(callLog, "retrieve")
    /\ UNCHANGED <<query, retrieval_results, promptChunks, response,
                   retrieverError, raised, completionError, ui, pdfVars>>
    /\ UNCHANGED <<chunkVars, storeVars, pdfVars>>

\* the retriever returns: the empty-result return, or the prompt is built and
\* the completion service is called
RetrieverReturns ==
    /\ pc = "retrieving"
    /\ \E results \in RetrievedLists :
        /\ retrieval_results' = results
        /\ IF NoResults(results)
           THEN /\ response' = Some(EmptyResponse(query))
                /\ pc' = "returned"
                /\ UNCHANGED <<promptChunks, callLog>>
           ELSE /\ promptChunks' = results
                /\ callLog' = Append(callLog, "complete")
                /\ pc' = "completing"
                /\ UNCHANGED response
    /\ UNCHANGED <<query, retrieverError, raised, completionError, ui>>
    /\ UNCHANGED <<chunkVars, storeVars, pdfVars>>

\* the retriever raises: nothing in generate_answer catches it
RetrieverRaises ==
    /\ pc = "retrieving"
    /\ \E e \in Errors :
        /\ retrieverError' = Some(e)
        /\ raised' = Some(e)
    /\ pc' = "raised"
    /\ UNCHANGED <<query, retrieval_results, promptChunks, response,
                   completionError, callLog, ui, pdfVars>>
    /\ UNCHANGED <<chunkVars, storeVars, pdfVars>>

\* the completion service answers
CompletionReturns ==
    /\ pc = "completing"
    /\ \E answer \in CompletionTexts, tokens_used \in Usages :
        response' =
            Some(SuccessResponse(query, retrieval_results, answer, tokens_used))
    /\ pc' = "returned"
    /\ UNCHANGED <<query, retrieval_results, promptChunks, retrieverError,
                   raised, completionError, callLog, ui, pdfVars>>
    /\ UNCHANGED <<chunkVars, storeVars, pdfVars>>

\* the completion call, or reading its reply, raises inside the try block
CompletionRaises ==
    /\ pc = "completing"
    /\ \E e \in Errors :
        /\ completionError' = Some(e)
        /\ response' = Some(FailureResponse(query, retrieval_results, e))
    /\ callLog' = CallsAfterCompletionError(callLog)
    /\ pc' = "returned"
    /\ UNCHANGED <<query, retrieval_results, promptChunks, retrieverError,
                   raised, ui, pdfVars>>
    /\ UNCHANGED <<chunkVars, storeVars, pdfVars>>

\* the caller formats the returned response for the UI
FormatResponseForUi ==
    /\ pc = "returned"
    /\ ui = None
    /\ ui' = Some(format_response_for_ui(response[1]))
    /\ UNCHANGED <<pc, query, retrieval_results, promptChunks, response,
                   retrieverError, raised, completionError, callLog, pdfVars>>
    /\ UNCHANGED <<chunkVars, storeVars, pdfVars>>

-----------------------------------------------------------------------------
(* embed_and_store over the ChromaDB index.  The index and the embedding   *)
(* function are external: Collection.add validates its arguments, embeds   *)
(* the documents, and then writes the records whose id is not yet stored   *)
(* (a record whose id exists is left as it is).                            *)

\* video ids, as sequences of string pieces
VideoIds == {<<"abc">>, <<"video_", "abc">>}

\* the chunk dicts handed to embed_and_store: 'text' and 'timestamp'
StoreChunks == {[text |-> "hello world", timestamp |-> 0],
                [text |-> "this is a test", timestamp |-> 2]}

ChunkLists == UNION {[1 .. n -> StoreChunks] : n \in 0 .. MaxStoreChunks}

\* f"video_{video_id}"
CollectionName(video_id) == <<"video_">> \o video_id

EmptyItems == [id \in {} |-> None]

\* client.get_or_create_collection(name)
GetOrCreateCollection(colls, name) ==
    IF name \in DOMAIN colls THEN colls ELSE (name :> EmptyItems) @@ colls

StoreIdsAfterStored(video_id, chunks) ==
    LET name == CollectionName(video_id)
        stored == IF name \in DOMAIN collections
                  THEN Cardinality(DOMAIN collections[name]) ELSE 0
    IN  [n \in 1 .. Len(chunks) |->
            video_id \o <<"_chunk_">> \o Digits(stored + n - 1)]

\* ids = [f"{video_id}_chunk_{index}" for index in range(len(chunks))]
StoreIds(video_id, chunks) ==
    [n \in 1 .. Len(chunks) |-> video_id \o <<"_chunk_">> \o Digits(n - 1)]

\* documents = [str(chunk['text']) for chunk in chunks]
StoreDocuments(chunks) == [n \in 1 .. Len(chunks) |-> chunks[n].text]

\* the position in the list stored in place of the chunk's timestamp
StoreMetadatasIndexAsTimestamp(video_id, chunks) ==
    [n \in 1 .. Len(chunks) |-> [timestamp |-> n - 1, video_id |-> video_id]]

\* metadatas = [{"timestamp": float(...), "video_id": str(video_id)} ...]
StoreMetadatas(video_id, chunks) ==
    [n \in 1 .. Len(chunks) |->
        [timestamp |-> chunks[n].timestamp, video_id |-> video_id]]

\* the records Collection.add writes: those whose id is not stored yet
AddRecords(items, ids, documents, metadatas) ==
    LET fresh == {n \in 1 .. Len(ids) : ids[n] \notin DOMAIN items}
        new == [id \in {ids[n] : n \in fresh} |->
                  LET n == CHOOSE m \in fresh : ids[m] = id
                  IN  [document |-> documents[n], metadata |-> metadatas[n]]]
    IN  new @@ items

\* what Collection.add raises, if anything
AddError(ids, embedding) ==
    IF Len(ids) = 0 THEN "ValueError"
    ELSE IF embedding = "down" THEN "EmbeddingError"
    ELSE "ok"

\* the index after embed_and_store(chunks, video_id) ran on the index colls:
\* the collection is got or created first, then Collection.add runs
EmbedAndStoreResult(colls, chunks, video_id, embedding) ==
    LET name == CollectionName(video_id)
        created == GetOrCreateCollection(colls, name)
        ids == StoreIds(video_id, chunks)
    IN  IF AddError(ids, embedding) = "ok"
        THEN [created EXCEPT ![name] =
                 AddRecords(created[name], ids, StoreDocuments(chunks),
                            StoreMetadatas(video_id, chunks))]
        ELSE created

EmptyIndex == [name \in {} |-> EmptyItems]

StoreInit ==
    /\ collections = EmptyIndex
    /\ storeCall = None
    /\ ingestCall = None
    /\ retrievalCall = None
    /\ cliCall = None

\* embed_and_store(chunks, video_id), with the embedding service up or down
EmbedAndStore ==
    \E chunks \in ChunkLists, video_id \in VideoIds, embedding \in {"up", "down"} :
        LET name == CollectionName(video_id)
            ids == StoreIds(video_id, chunks)
            documents == StoreDocuments(chunks)
            outcome == AddError(ids, embedding)
            last == IF storeCall = None THEN None
                    ELSE IF /\ storeCall[1].outcome = "ok"
                            /\ storeCall[1].video_id = video_id
                            /\ storeCall[1].chunks = chunks
                         THEN storeCall ELSE None
        IN  /\ collections' =
                EmbedAndStoreResult(collections, chunks, video_id, embedding)
            /\ storeCall' = Some([video_id |-> video_id,
                                  chunks |-> chunks,
                                  embedding |-> embedding,
                                  outcome |-> outcome,
                                  ids |-> ids,
                                  documents |-> documents,
                                  before |-> IF name \in DOMAIN collections
                                             THEN Some(collections[name])
                                             ELSE None,
                                  rerun |-> last /= None,
                                  prevIds |-> IF last = None THEN <<>>
                                              ELSE last[1].ids,
                                  prevDocuments |-> IF last = None THEN <<>>
                                                    ELSE last[1].documents])
            /\ UNCHANGED <<chunkVars, answerVars, ingestCall, retrievalCall, cliCall,
                           pdfVars>>

-----------------------------------------------------------------------------
(* ingest_video: main.py.  get_transcript, get_id and chunk_transcript are
   imported from src.ingestion; the transcript normalizer and the timestamp
   resolution of the chunker follow sections 4.1 and 4.2 of the
   specification, the token windows are those of make_chunks. *)

MaxSegments == 2

HelloWorld == <<"H", "e", "l", "l", "o", " ", "w", "o", "r", "l", "d">>

ThisIsATest ==
    <<"t", "h", "i", "s", " ", "i", "s", " ", "a", " ", "t", "e", "s", "t">>

\* the transcript of the example: two segments starting at 0 s and 2 s
ExampleTranscript ==
    <<[text |-> HelloWorld, start |-> 0, duration |-> 2],
      [text |-> ThisIsATest, start |-> 2, duration |-> 3]>>

SegmentTexts == {<<"a">>, <<"a", " ", "a">>, <<"b", " ">>, <<" ">>}

\* transcripts of up to MaxSegments segments; segment k starts at 2 (k - 1) s
Transcripts ==
    {ExampleTranscript} \cup
    UNION {{[k \in 1 .. n |-> [text |-> texts[k], start |-> 2 * (k - 1),
                                duration |-> 2]] :
               texts \in [1 .. n -> SegmentTexts]} : n \in 0 .. MaxSegments}

RECURSIVE NormalizeFrom(_, _, _, _)
\* the segments from the k-th on appended to buffer, one space inserted before
\* a segment when the buffer does not already end in whitespace
NormalizeFrom(transcript, k, buffer, position_map) ==
    IF k > Len(transcript)
    THEN [buffer |-> buffer, position_map |-> position_map]
    ELSE LET seg == transcript[k]
             sep == IF buffer /= <<>> /\ ~IsSpace(buffer[Len(buffer)])
                    THEN <<" ">> ELSE <<>>
             char_start == Len(buffer) + Len(sep)
             entry == [char_start |-> char_start,
                       char_end |-> char_start + Len(seg.text),
                       timestamp |-> seg.start,
                       text |-> seg.text]
         IN  NormalizeFrom(transcript, k + 1, buffer \o sep \o seg.text,
                           Append(position_map, entry))

Normalize(transcript) == NormalizeFrom(transcript, 1, <<>>, <<>>)

\* the timestamp of the entry whose half-open range holds offset start, else
\* the last timestamp of the map
ResolveTimestamp(position_map, start) ==
    LET holding == {i \in 1 .. Len(position_map) :
                       /\ position_map[i].char_start <= start
                       /\ start < position_map[i].char_end}
    IN  IF holding /= {}
        THEN position_map[CHOOSE i \in holding : \A m \in holding : i <= m].timestamp
        ELSE IF position_map /= <<>>
             THEN position_map[Len(position_map)].timestamp
             ELSE 0

\* the chunks of a transcript: the windows of make_chunks over the normalized
\* buffer, each with the timestamp resolved from its char_span start
chunk_transcript(transcript, chunk_size, overlap) ==
    LET normalized == Normalize(transcript)
        made == make_chunks([doc_id |-> "doc", title |-> "T",
                             source_path |-> "p.txt",
                             raw_text |-> normalized.buffer],
                            chunk_size, overlap)
    IN  IF made.kind = "raise" THEN made
        ELSE Return([n \in 1 .. Len(made.value) |->
                       [text |-> made.value[n].text,
                        char_span |-> made.value[n].char_span,
                        timestamp |-> ResolveTimestamp(normalized.position_map,
                                                       made.value[n].char_span[1])]])

\* the stage of ingest_video that raised, "none" when every stage returned
FailedStage(fetch, chunked, video_id, embedding) ==
    IF fetch = "fail" THEN "fetch"
    ELSE IF chunked.kind = "raise" THEN "chunk"
    ELSE IF AddError(StoreIds(video_id, chunked.value), embedding) /= "ok"
         THEN "store"
    ELSE "none"

\* embed_and_store entered whatever the earlier stages did
StagesRunStoreAlways(failed) ==
    IF failed = "fetch" THEN <<"fetch", "store">>
    ELSE <<"fetch", "id", "chunk", "store">>

\* the stages ingest_video entered, in order
StagesRun(failed) ==
    IF failed = "fetch" THEN <<"fetch">>
    ELSE IF failed = "chunk" THEN <<"fetch", "id", "chunk">>
    ELSE <<"fetch", "id", "chunk", "store">>

\* the status a command ends with: sys.exit(1) in the except clause
ExitStatus(failed) == IF failed = "none" THEN 0 ELSE 1

\* the indexes an ingestion may start from: empty, or holding the example
\* ingested earlier for one of the videos
PriorIndexes ==
    {EmptyIndex} \cup
    {EmbedAndStoreResult(EmptyIndex,
                         chunk_transcript(ExampleTranscript, 3, 1).value,
                         v, "up") : v \in VideoIds}

IngestInit ==
    /\ collections \in PriorIndexes
    /\ storeCall = None
    /\ ingestCall = None
    /\ retrievalCall = None
    /\ cliCall = None

\* ingest_video(url): one run of the command; the except clause prints the
\* error and exits with status 1
IngestVideo ==
    /\ ingestCall = None
    /\ \E video_id \in VideoIds, fetch \in {"ok", "fail"},
          transcript \in Transcripts, chunk_size \in WindowArgs,
          overlap \in WindowArgs, embedding \in {"up", "down"} :
        LET chunked == chunk_transcript(transcript, chunk_size, overlap)
            failed == FailedStage(fetch, chunked, video_id, embedding)
            stages == StagesRun(failed)
            stored == \E n \in 1 .. Len(stages) : stages[n] = "store"
        IN  /\ collections' =
                  IF stored
                  THEN EmbedAndStoreResult(collections,
                           IF chunked.kind = "return" THEN chunked.value ELSE <<>>,
                           video_id, embedding)
                  ELSE collections
            /\ ingestCall' = Some([video_id |-> video_id,
                                   transcript |-> IF fetch = "ok" THEN transcript
                                                  ELSE <<>>,
                                   chunk_size |-> chunk_size,
                                   overlap |-> overlap,
                                   chunked |-> IF fetch = "ok" THEN chunked
                                               ELSE NotCalled,
                                   failed |-> failed,
                                   stages |-> stages,
                                   embedding |-> embedding,
                                   error_line |->
                                       IF failed = "none" THEN None
                                       ELSE Some("Error during ingestion"),
                                   exit |-> ExitStatus(failed),
                                   before |-> collections])
            /\ UNCHANGED <<chunkVars, answerVars, storeCall, retrievalCall, cliCall,
                           pdfVars>>

\* ask_question(video_id, question, n_results): generate_answer, then the
\* answer and its sources are printed
AskQuestion ==
    /\ cliCall = None
    /\ \E video_id \in VideoIds, answer \in {"returns", "raises"},
       printing \in {"returns", "raises"} :
        LET failed == IF answer = "raises" THEN "generate_answer"
                      ELSE IF printing = "raises" THEN "print"
                      ELSE "none"
        IN  /\ cliCall' = Some([command |-> "ask",
                                calls |-> <<"generate_answer">>,
                                failed |-> failed,
                                error_line |->
                                    IF failed = "none" THEN None
                                    ELSE Some("Error answering question"),
                                exit |-> ExitStatus(failed)])
            /\ UNCHANGED <<collections, storeCall, ingestCall, retrievalCall>>
            /\ UNCHANGED <<chunkVars, answerVars, pdfVars>>

\* summarize_video(video_id): generate_summary, then the summary is printed
SummarizeVideo ==
    /\ cliCall = None
    /\ \E video_id \in VideoIds, summary \in {"returns", "raises"},
       printing \in {"returns", "raises"} :
        LET failed == IF summary = "raises" THEN "generate_summary"
                      ELSE IF printing = "raises" THEN "print"
                      ELSE "none"
        IN  /\ cliCall' = Some([command |-> "summarize",
                                calls |-> <<"generate_summary">>,
                                failed |-> failed,
                                error_line |->
                                    IF failed = "none" THEN None
                                    ELSE Some("Error generating summary"),
                                exit |-> ExitStatus(failed)])
            /\ UNCHANGED <<collections, storeCall, ingestCall, retrievalCall>>
            /\ UNCHANGED <<chunkVars, answerVars, pdfVars>>

\* list_videos(): list_available_videos, with the index reachable or not
ListVideos ==
    /\ cliCall = None
    /\ \E listing \in {"returns", "raises"} :
        LET failed == IF listing = "raises" THEN "list_available_videos"
                      ELSE "none"
        IN  /\ cliCall' = Some([command |-> "list",
                                calls |-> <<"list_available_videos">>,
                                failed |-> failed,
                                error_line |->
                                    IF failed = "none" THEN None
                                    ELSE Some("Error listing videos"),
                                exit |-> ExitStatus(failed)])
            /\ UNCHANGED <<collections, storeCall, ingestCall, retrievalCall>>
            /\ UNCHANGED <<chunkVars, answerVars, pdfVars>>

-----------------------------------------------------------------------------
(* search_video and get_context_window: retrieval.py *)

MaxK == 2
MaxTime == 3
MaxWindow == 2

\* the distance the index computes between a query and a stored document
Distance(q, document) ==
    IF q = "q1"
    THEN (IF document = "hello world" THEN 1 ELSE 3)
    ELSE (IF document = "hello world" THEN 4 ELSE 2)

\* the orders in which the index may enumerate a set of ids
Orderings(S) ==
    {p \in [1 .. Cardinality(S) -> S] :
        \A a, b \in 1 .. Cardinality(S) : a /= b => p[a] /= p[b]}

\* get_or_create_collection used where get_collection is called
GetCollectionOrCreate(colls, name) ==
    [found |-> TRUE, colls |-> GetOrCreateCollection(colls, name)]

\* client.get_collection(name): raises when the collection does not exist,
\* and leaves the index as it is
GetCollection(colls, name) ==
    [found |-> name \in DOMAIN colls, colls |-> colls]

\* the id lists collection.query may rank first for n_results = k: the
\* min(k, count) nearest items by ascending distance, ties in any order
Rankings(items, q, k) ==
    {SubSeq(p, 1, Min(k, Cardinality(DOMAIN items))) :
        p \in {r \in Orderings(DOMAIN items) :
                  \A a \in 1 .. Len(r) - 1 :
                      Distance(q, items[r[a]].document)
                          <= Distance(q, items[r[a + 1]].document)}}

\* what collection.query returns for one query text: one inner list per field
QueryResult(items, q, ranking) ==
    [documents |-> <<[n \in 1 .. Len(ranking) |-> items[ranking[n]].document]>>,
     metadatas |-> <<[n \in 1 .. Len(ranking) |-> items[ranking[n]].metadata]>>,
     distances |-> <<[n \in 1 .. Len(ranking) |->
                        Distance(q, items[ranking[n]].document)]>>]

\* every result given the metadata of the first match
FormatSearchResultsFirstMetadata(results) ==
    IF results.documents = <<>> THEN <<>>
    ELSE [i \in 1 .. Len(results.documents[1]) |->
             [text |-> results.documents[1][i],
              timestamp |-> results.metadatas[1][1].timestamp,
              video_id |-> results.metadatas[1][1].video_id,
              distance |-> results.distances[1][i]]]

\* formatted_results of search_video
FormatSearchResults(results) ==
    IF results.documents = <<>> THEN <<>>
    ELSE [i \in 1 .. Len(results.documents[1]) |->
             [text |-> results.documents[1][i],
              timestamp |-> results.metadatas[1][i].timestamp,
              video_id |-> results.metadatas[1][i].video_id,
              distance |-> results.distances[1][i]]]

\* what collection.query raises, if anything
QueryError(k, embedding) ==
    IF k < 1 THEN "ValueError"
    ELSE IF embedding = "down" THEN "EmbeddingError"
    ELSE "ok"

\* start_time = max(0, timestamp - window_seconds)
StartTime(timestamp, window_seconds) ==
    IF timestamp - window_seconds > 0 THEN timestamp - window_seconds ELSE 0

\* end_time = timestamp + window_seconds
EndTime(timestamp, window_seconds) == timestamp + window_seconds

\* a window that leaves out a chunk lying exactly on its lower bound
InWindowOpenBelow(start_time, chunk_timestamp, end_time) ==
    start_time < chunk_timestamp /\ chunk_timestamp <= end_time

\* start_time <= chunk_timestamp <= end_time
InWindow(start_time, chunk_timestamp, end_time) ==
    start_time <= chunk_timestamp /\ chunk_timestamp <= end_time

\* what collection.get returns, the items enumerated in the given order
GetResult(items, order) ==
    [documents |-> [n \in 1 .. Len(order) |-> items[order[n]].document],
     metadatas |-> [n \in 1 .. Len(order) |-> items[order[n]].metadata]]

RECURSIVE ContextChunks(_, _, _, _)
\* the filtering loop of get_context_window from index i on
ContextChunks(all_results, start_time, end_time, i) ==
    IF i > Len(all_results.documents) THEN <<>>
    ELSE LET chunk_timestamp == all_results.metadatas[i].timestamp
             rest == ContextChunks(all_results, start_time, end_time, i + 1)
         IN  IF InWindow(start_time, chunk_timestamp, end_time)
             THEN <<[text |-> all_results.documents[i],
                     timestamp |-> chunk_timestamp,
                     video_id |-> all_results.metadatas[i].video_id]>> \o rest
             ELSE rest

\* x put into the sorted list after every element that is not greater
InsertByTimestamp(sorted, x) ==
    LET before == {n \in 0 .. Len(sorted) :
                      \A m \in 1 .. n : sorted[m].timestamp <= x.timestamp}
        at == CHOOSE n \in before : \A m \in before : m <= n
    IN  SubSeq(sorted, 1, at) \o <<x>> \o SubSeq(sorted, at + 1, Len(sorted))

RECURSIVE SortByTimestamp(_)
\* list.sort(key=timestamp): ascending and stable
SortByTimestamp(chunks) ==
    IF chunks = <<>> THEN <<>>
    ELSE InsertByTimestamp(SortByTimestamp(SubSeq(chunks, 1, Len(chunks) - 1)),
                           chunks[Len(chunks)])

\* collection.name.startswith("video_")
StartsWithVideo(name) == Len(name) >= 1 /\ name[1] = "video_"

\* collection.name.replace("video_", ""): every occurrence is removed
ReplaceVideo(name) == SelectSeq(name, LAMBDA piece : piece /= "video_")

RECURSIVE VideoIdsOf(_)
\* the loop of list_available_videos over the collections in the given order
VideoIdsOf(names) ==
    IF names = <<>> THEN <<>>
    ELSE IF StartsWithVideo(names[1])
         THEN <<ReplaceVideo(names[1])>> \o VideoIdsOf(Tail(names))
         ELSE VideoIdsOf(Tail(names))

\* the indexes retrieval may find: those left by up to two embed_and_store
\* calls
StoredIndexes ==
    {EmbedAndStoreResult(EmbedAndStoreResult(EmptyIndex, c1, v1, e1), c2, v2, "up") :
        c1 \in ChunkLists, c2 \in ChunkLists, v1 \in VideoIds, v2 \in VideoIds,
        e1 \in {"up", "down"}}

RetrieveInit ==
    /\ collections \in {EmptyIndex} \cup StoredIndexes
    /\ storeCall = None
    /\ ingestCall = None
    /\ retrievalCall = None
    /\ cliCall = None

\* search_video(video_id, query, n_results)
SearchVideo ==
    \E video_id \in VideoIds, q \in Queries, k \in 0 .. MaxK,
       embedding \in {"up", "down"} :
        LET name == CollectionName(video_id)
            got == GetCollection(collections, name)
            call == [op |-> "search_video", video_id |-> video_id, query |-> q,
                     n_results |-> k, before |-> collections]
        IN  /\ collections' = got.colls
            /\ IF ~got.found
               THEN retrievalCall' =
                        Some(call @@ [outcome |-> Raise("NotFound")])
               ELSE IF QueryError(k, embedding) /= "ok"
               THEN retrievalCall' =
                        Some(call @@ [outcome |-> Raise(QueryError(k, embedding))])
               ELSE \E ranking \in Rankings(got.colls[name], q, k) :
                        retrievalCall' =
                            Some(call @@ [outcome |->
                                Return(FormatSearchResults(
                                    QueryResult(got.colls[name], q, ranking)))])
            /\ UNCHANGED <<chunkVars, answerVars, storeCall, ingestCall, cliCall,
                           pdfVars>>

\* get_context_window(video_id, timestamp, window_seconds)
GetContextWindow ==
    \E video_id \in VideoIds, timestamp \in 0 .. MaxTime,
       window_seconds \in 0 .. MaxWindow :
        LET name == CollectionName(video_id)
            got == GetCollection(collections, name)
            call == [op |-> "get_context_window", video_id |-> video_id,
                     timestamp |-> timestamp, window_seconds |-> window_seconds,
                     before |-> collections]
        IN  /\ collections' = got.colls
            /\ IF ~got.found
               THEN retrievalCall' =
                        Some(call @@ [outcome |-> Raise("NotFound")])
               ELSE \E order \in Orderings(DOMAIN got.colls[name]) :
                        retrievalCall' =
                            Some(call @@ [outcome |->
                                Return(SortByTimestamp(ContextChunks(
                                    GetResult(got.colls[name], order),
                                    StartTime(timestamp, window_seconds),
                                    EndTime(timestamp, window_seconds), 1)))])
            /\ UNCHANGED <<chunkVars, answerVars, storeCall, ingestCall, cliCall,
                           pdfVars>>

\* list_available_videos()
ListAvailableVideos ==
    \E order \in Orderings(DOMAIN collections) :
        /\ retrievalCall' =
               Some([op |-> "list_available_videos", video_id |-> <<>>,
                     before |-> collections,
                     outcome |-> Return(VideoIdsOf(order))])
        /\ UNCHANGED <<collections, storeCall, ingestCall, cliCall>>
        /\ UNCHANGED <<chunkVars, answerVars, pdfVars>>

-----------------------------------------------------------------------------
(* PDFDocumentProcessor.chunk_document: document_processor.py *)

DefaultChunkSize == 1000
ChunkOverlap == 200

\* documents are built from blocks of BlockLen characters
BlockLen == 400
MaxBlocks == 3
MaxIterations == 6

\* "A": letters only; "E": letters and a final '.'; "S": '.', a space, then
\* letters; "W": spaces only
Blocks == {"A", "E", "S", "W"}

Contents == UNION {[1 .. n -> Blocks] : n \in 0 .. MaxBlocks}

\* the chunk_size arguments tried; 0 stands for an omitted (None) argument
ChunkSizeArgs == {0, -1, 200, 500, 800}

\* len(text)
TextLen(text) == Len(text) * BlockLen

\* text[k] for 0 <= k < len(text)
CharAt(text, k) ==
    LET block == text[(k \div BlockLen) + 1]
        o == k % BlockLen
    IN  IF block = "W" THEN " "
        ELSE IF block = "E" /\ o = BlockLen - 1 THEN "."
        ELSE IF block = "S" /\ o = 0 THEN "."
        ELSE IF block = "S" /\ o = 1 THEN " "
        ELSE "a"

\* the offsets of text that hold a '.'
PeriodOffsets(text) ==
    {(n - 1) * BlockLen + BlockLen - 1 : n \in {m \in 1 .. Len(text) : text[m] = "E"}}
    \cup {(n - 1) * BlockLen : n \in {m \in 1 .. Len(text) : text[m] = "S"}}

\* a slice index as Python reads it: negative counts from the end, and the
\* result is clamped to 0 .. n
SliceIndex(i, n) ==
    IF i < 0 THEN (IF i + n < 0 THEN 0 ELSE i + n)
    ELSE (IF i > n THEN n ELSE i)

\* text.rfind('.', from, to)
RFindPeriod(text, from, to) ==
    LET lo == SliceIndex(from, TextLen(text))
        hi == SliceIndex(to, TextLen(text))
        found == {p \in PeriodOffsets(text) : lo <= p /\ p < hi}
    IN  IF found = {} THEN -1
        ELSE CHOOSE p \in found : \A q \in found : q <= p

RECURSIVE LStrip(_, _, _)
\* the first offset in lo .. hi - 1 that holds no whitespace, hi if none
LStrip(text, lo, hi) ==
    IF lo >= hi THEN hi
    ELSE IF CharAt(text, lo) /= " " THEN lo
    ELSE IF text[(lo \div BlockLen) + 1] = "W"
         THEN LStrip(text, Min(hi, ((lo \div BlockLen) + 1) * BlockLen), hi)
    ELSE LStrip(text, lo + 1, hi)

RECURSIVE RStrip(_, _, _)
\* one past the last offset in lo .. hi - 1 that holds no whitespace, lo if none
RStrip(text, lo, hi) ==
    IF lo >= hi THEN lo
    ELSE IF CharAt(text, hi - 1) /= " " THEN hi
    ELSE IF text[((hi - 1) \div BlockLen) + 1] = "W"
         THEN RStrip(text, lo, IF ((hi - 1) \div BlockLen) * BlockLen > lo
                               THEN ((hi - 1) \div BlockLen) * BlockLen ELSE lo)
    ELSE RStrip(text, lo, hi - 1)

\* text[from:to].strip(), as the range <<lo, hi>> of text it is copied from;
\* <<0, 0>> stands for the empty string
StripSlice(text, from, to) ==
    LET lo == SliceIndex(from, TextLen(text))
        hi == SliceIndex(to, TextLen(text))
        l == LStrip(text, lo, hi)
        r == RStrip(text, l, hi)
    IN  IF l >= r THEN <<0, 0>> ELSE <<l, r>>

\* last_period != -1 and last_period > start + self.chunk_size // 2
NearEnd(last_period, from, size) ==
    last_period /= -1 /\ last_period > from + (size \div 2)

\* end after the sentence-boundary adjustment
WindowEnd(text, from, size) ==
    LET end == Min(from + size, TextLen(text))
        last_period == RFindPeriod(text, from, end)
    IN  IF end < TextLen(text) /\ NearEnd(last_period, from, size)
        THEN last_period + 1
        ELSE end

\* if chunk_size: self.chunk_size = chunk_size
SizeAfterCall(current, arg) == IF arg /= 0 THEN arg ELSE current

\* start = end - self.chunk_overlap if end < len(text) else end
NextStart(text, from, end) ==
    IF end < TextLen(text) THEN end - ChunkOverlap ELSE end

PdfInit ==
    /\ document_content = <<>>
    /\ chunk_size_arg = 0
    /\ self_chunk_size = DefaultChunkSize
    /\ loop_start = 0
    /\ prev_start = 0
    /\ chunk_index = 0
    /\ pdfChunks = <<>>
    /\ pdfPc = "idle"
    /\ iterations = 0

PdfIdle == PdfInit

\* chunk_document(document, chunk_size) up to the head of the loop
ChunkDocumentCall ==
    /\ pdfPc \in {"idle", "done"}
    /\ \E text \in Contents, arg \in ChunkSizeArgs :
        /\ document_content' = text
        /\ chunk_size_arg' = arg
        /\ self_chunk_size' = SizeAfterCall(self_chunk_size, arg)
    /\ loop_start' = 0
    /\ prev_start' = 0
    /\ chunk_index' = 0
    /\ pdfChunks' = <<>>
    /\ iterations' = 0
    /\ pdfPc' = "loop"
    /\ UNCHANGED <<chunkVars, answerVars, storeVars>>

\* one iteration of the while loop
ChunkDocumentLoop ==
    /\ pdfPc = "loop"
    /\ loop_start < TextLen(document_content)
    /\ iterations < MaxIterations
    /\ LET end == WindowEnd(document_content, loop_start, self_chunk_size)
           chunk_text == StripSlice(document_content, loop_start, end)
       IN  /\ IF chunk_text /= <<0, 0>>
              THEN /\ pdfChunks' = Append(pdfChunks,
                                      [content |-> chunk_text,
                                       chunk_index |-> chunk_index,
                                       start_char |-> loop_start,
                                       end_char |-> end])
                   /\ chunk_index' = chunk_index + 1
              ELSE UNCHANGED <<pdfChunks, chunk_index>>
           /\ loop_start' = NextStart(document_content, loop_start, end)
    /\ prev_start' = loop_start
    /\ iterations' = iterations + 1
    /\ UNCHANGED <<document_content, chunk_size_arg, self_chunk_size, pdfPc>>
    /\ UNCHANGED <<chunkVars, answerVars, storeVars>>

\* the loop left: document.chunks = chunks; return chunks
ChunkDocumentReturn ==
    /\ pdfPc = "loop"
    /\ ~(loop_start < TextLen(document_content))
    /\ pdfPc' = "done"
    /\ UNCHANGED <<document_content, chunk_size_arg, self_chunk_size, loop_start, prev_start,
                   chunk_index, pdfChunks, iterations>>
    /\ UNCHANGED <<chunkVars, answerVars, storeVars>>

-----------------------------------------------------------------------------
(* Specifications *)

ChunkNext == MakeChunks

InitChunk == ChunkInit /\ AnswerIdle /\ StoreInit /\ PdfIdle

SpecChunk == InitChunk /\ [][ChunkNext]_vars

AnswerNext ==
    \/ CallRetriever
    \/ RetrieverReturns
    \/ RetrieverRaises
    \/ CompletionReturns
    \/ CompletionRaises
    \/ FormatResponseForUi

InitAnswer == AnswerInit /\ ChunkIdle /\ StoreInit /\ PdfIdle

SpecAnswer == InitAnswer /\ [][AnswerNext]_vars

StoreNext == EmbedAndStore

InitStore == StoreInit /\ ChunkIdle /\ AnswerIdle /\ PdfIdle

SpecStore == InitStore /\ [][StoreNext]_vars

IngestNext == IngestVideo

InitIngest == IngestInit /\ ChunkIdle /\ AnswerIdle /\ PdfIdle

SpecIngest == InitIngest /\ [][IngestNext]_vars

RetrieveNext ==
    \/ SearchVideo
    \/ GetContextWindow
    \/ ListAvailableVideos

InitRetrieve == RetrieveInit /\ ChunkIdle /\ AnswerIdle /\ PdfIdle

SpecRetrieve == InitRetrieve /\ [][RetrieveNext]_vars

CliNext ==
    \/ IngestVideo
    \/ AskQuestion
    \/ SummarizeVideo
    \/ ListVideos

SpecCli == InitIngest /\ [][CliNext]_vars

\* embed_and_store calls followed by one retrieval call
StoreThenRetrieve ==
    /\ retrievalCall = None
    /\ \/ EmbedAndStore
       \/ SearchVideo
       \/ GetContextWindow

TraceNext == StoreThenRetrieve

SpecTrace == InitStore /\ [][TraceNext]_vars

PdfNext ==
    \/ ChunkDocumentCall
    \/ ChunkDocumentLoop
    \/ ChunkDocumentReturn

InitPdf == PdfInit /\ ChunkIdle /\ AnswerIdle /\ StoreInit

SpecPdf == InitPdf /\ [][PdfNext]_vars

-----------------------------------------------------------------------------
(* Properties of make_chunks *)

Called == chunkResult.kind /= "none"
Returned == chunkResult.kind = "return"

ValidConfig ==
    /\ chunk_size_tokens > 0
    /\ 0 <= chunk_overlap_tokens
    /\ chunk_overlap_tokens < chunk_size_tokens

\* the offsets of the buffer at which a whitespace-delimited token begins
TokenOffsets(text) ==
    {k \in 0 .. Len(text) - 1 :
        /\ ~IsSpace(text[k + 1])
        /\ (k = 0 \/ IsSpace(text[k]))}

InSpan(k, c) == c.char_span[1] <= k /\ k < c.char_span[2]

\* the number of tokens of the buffer that lie in the spans of both chunks
SharedTokens(text, c1, c2) ==
    Cardinality({k \in TokenOffsets(text) : InSpan(k, c1) /\ InSpan(k, c2)})

Covered(k, chunks) == \E n \in 1 .. Len(chunks) : InSpan(k, chunks[n])

\* C1: make_chunks raises ValueError, and returns no chunk list, exactly when
\* chunk_size <= 0, overlap < 0 or overlap >= chunk_size; only a valid window
\* configuration ever returns chunks.
C1_InvalidConfigRaises ==
    Called =>
        /\ ~ValidConfig => chunkResult = Raise("ValueError")
        /\ ValidConfig => Returned

C1_Witness ==
    /\ Called
    /\ chunk_size_tokens > 0
    /\ chunk_overlap_tokens = chunk_size_tokens
    /\ chunkResult = Raise("ValueError")

\* C2: the returned chunks are ordered by char_span start, strictly ascending,
\* and two consecutive chunks share at most chunk_overlap_tokens tokens.
C2_OrderedBoundedOverlap ==
    Returned =>
        \A n \in 1 .. Len(chunkResult.value) - 1 :
            LET c1 == chunkResult.value[n]
                c2 == chunkResult.value[n + 1]
            IN  /\ c1.char_span[1] < c2.char_span[1]
                /\ SharedTokens(doc.raw_text, c1, c2) <= chunk_overlap_tokens

C2_Witness ==
    /\ Returned
    /\ Len(chunkResult.value) >= 2
    /\ chunk_overlap_tokens >= 1
    /\ SharedTokens(doc.raw_text, chunkResult.value[1], chunkResult.value[2])
           = chunk_overlap_tokens

\* C3 as stated: for a non-empty buffer every character offset of the buffer
\* lies inside the span of at least one returned chunk.
C3_EveryOffsetCovered ==
    (Returned /\ Len(doc.raw_text) > 0) =>
        \A k \in 0 .. Len(doc.raw_text) - 1 : Covered(k, chunkResult.value)

\* C3 amended: every non-whitespace character offset of the buffer lies inside
\* the span of at least one returned chunk (whitespace before the first token,
\* after the last token or between two chunks may lie in no span).
C3_EveryTokenCovered ==
    Returned =>
        \A k \in 0 .. Len(doc.raw_text) - 1 :
            ~IsSpace(doc.raw_text[k + 1]) => Covered(k, chunkResult.value)

C3_Witness ==
    /\ Returned
    /\ chunk_overlap_tokens = 0
    /\ Len(chunkResult.value) >= 2
    /\ IsSpace(doc.raw_text[1])
    /\ \E k \in 1 .. Len(doc.raw_text) - 1 :
           /\ ~Covered(k, chunkResult.value)
           /\ \E m \in 0 .. k - 1 : Covered(m, chunkResult.value)
           /\ \E m \in k + 1 .. Len(doc.raw_text) - 1 : Covered(m, chunkResult.value)

-----------------------------------------------------------------------------
(* Properties of generate_answer *)

Calls(service) == Cardinality({n \in DOMAIN callLog : callLog[n] = service})

Finished == pc \in {"returned", "raised"}

\* C4: when the retriever returns zero chunks, generate_answer returns the
\* fixed "couldn't find any relevant information" answer with no sources and
\* the completion service has not been called.
C4_EmptyRetrievalCannedNoCompletion ==
    (pc = "returned" /\ retrieval_results = <<>>) =>
        /\ response /= None
        /\ response[1].answer = CannedAnswer
        /\ response[1].sources = <<>>
        /\ response[1].query = query
        /\ Calls("complete") = 0

C4_Witness ==
    /\ pc = "returned"
    /\ retrieval_results = <<>>
    /\ callLog = <<"retrieve">>
    /\ response /= None
    /\ response[1].answer = CannedAnswer

\* C5: when retrieval returned chunks and the completion call raises, nothing
\* escapes generate_answer: it returns a response whose sources are exactly
\* the retrieved chunks, whose answer describes the error, with the query, the
\* configured model and tokens_used unset.
C5_CompletionFailureKeepsSources ==
    completionError /= None =>
        /\ pc = "returned"
        /\ raised = None
        /\ retrieval_results /= <<>>
        /\ response /= None
        /\ response[1].sources = retrieval_results
        /\ response[1].answer = ErrorAnswer(completionError[1])
        /\ response[1].query = query
        /\ response[1].model_used = Model
        /\ response[1].tokens_used = None

C5_Witness ==
    /\ completionError /= None
    /\ pc = "returned"
    /\ Len(retrieval_results) >= 2
    /\ response[1].sources = retrieval_results

\* C6: on the success path and on the completion-failure path the sources of
\* the response are the retrieved chunks in the order handed to the prompt,
\* none changed, dropped or repeated, and format_response_for_ui numbers them
\* 1..n in that order with source_count = n.
C6_SourcesInRetrievedOrder ==
    (pc = "returned" /\ retrieval_results /= <<>>) =>
        /\ promptChunks = retrieval_results
        /\ response[1].sources = promptChunks
        /\ ui /= None =>
            /\ ui[1].source_count = Len(retrieval_results)
            /\ DOMAIN ui[1].sources = 1 .. Len(retrieval_results)
            /\ \A n \in 1 .. Len(retrieval_results) :
                /\ ui[1].sources[n].number = n
                /\ ui[1].sources[n].title = retrieval_results[n].title
                /\ ui[1].sources[n].time_range = retrieval_results[n].display_range
                /\ ui[1].sources[n].jump_url = retrieval_results[n].jump_url
                /\ ui[1].sources[n].similarity = retrieval_results[n].similarity_score

C6_Witness ==
    /\ pc = "returned"
    /\ completionError = None
    /\ Len(retrieval_results) >= 2
    /\ retrieval_results[1] /= retrieval_results[2]
    /\ ui /= None
    /\ ui[1].sources[2].jump_url = retrieval_results[2].jump_url

\* C7: in every execution of generate_answer the retriever is called exactly
\* once and the completion service at most once (no retry), never while the
\* retrieval is outstanding, and only after the retriever returned a non-empty
\* list.
C7_OneRetrievalThenAtMostOneCompletion ==
    /\ Calls("retrieve") <= 1
    /\ Calls("complete") <= 1
    /\ Finished => Calls("retrieve") = 1
    /\ pc = "retrieving" => Calls("complete") = 0
    /\ Calls("complete") = 1 =>
        /\ callLog = <<"retrieve", "complete">>
        /\ retrieval_results /= <<>>
        /\ retrieverError = None

C7_Witness ==
    /\ pc = "returned"
    /\ completionError /= None
    /\ callLog = <<"retrieve", "complete">>

\* C8 as stated: a retrieval failure and a completion failure each leave
\* generate_answer as an error, never as a returned answer.
C8_FailuresSurfaceAsErrors ==
    (Finished /\ (retrieverError /= None \/ completionError /= None)) =>
        /\ pc = "raised"
        /\ response = None

\* C8 amended: a retrieval failure leaves generate_answer as the exception the
\* retriever raised and no response is returned; a completion failure is
\* returned as a response whose answer is the error message, with the
\* retrieved sources; neither is the canned empty-result answer.
C8_FailuresDistinctFromEmptyResult ==
    /\ retrieverError /= None =>
        /\ pc = "raised"
        /\ raised = retrieverError
        /\ response = None
    /\ completionError /= None =>
        /\ pc = "returned"
        /\ raised = None
        /\ response[1].answer = ErrorAnswer(completionError[1])
        /\ response[1].answer /= CannedAnswer
        /\ response[1].sources /= <<>>

C8_Witness ==
    /\ completionError /= None
    /\ pc = "returned"
    /\ response /= None
    /\ response[1].answer = ErrorAnswer(completionError[1])

-----------------------------------------------------------------------------
(* Properties of embed_and_store *)

\* C10: a second embed_and_store run with the same chunk list and video_id,
\* right after a successful one, passes the same ids and texts to the index,
\* succeeds whenever the embedding service answers, and leaves the collection
\* video_<video_id> holding exactly the items it held after the first run.
C10_ReingestionSameItems ==
    (storeCall /= None /\ storeCall[1].rerun) =>
        LET call == storeCall[1]
            name == CollectionName(call.video_id)
        IN  /\ call.ids = call.prevIds
            /\ call.documents = call.prevDocuments
            /\ \A n \in 1 .. Len(call.ids) :
                   call.ids[n] = call.video_id \o <<"_chunk_">> \o Digits(n - 1)
            /\ call.embedding = "up" => call.outcome = "ok"
            /\ name \in DOMAIN collections
            /\ Some(collections[name]) = call.before
            /\ Cardinality(DOMAIN collections[name]) >= Len(call.chunks)

C10_Witness ==
    /\ storeCall /= None
    /\ storeCall[1].rerun
    /\ storeCall[1].outcome = "ok"
    /\ Len(storeCall[1].chunks) >= 2
    /\ Cardinality(DOMAIN collections[CollectionName(storeCall[1].video_id)])
           = Len(storeCall[1].chunks)

-----------------------------------------------------------------------------
(* Further properties of make_chunks *)

\* the number of whitespace-delimited tokens of the buffer
TokenCount(text) == Cardinality(TokenOffsets(text))

\* the offset just past the last non-whitespace character of the buffer
LastTokenEnd(text) ==
    LET inked == {k \in 0 .. Len(text) - 1 : ~IsSpace(text[k + 1])}
    IN  IF inked = {} THEN 0
        ELSE 1 + CHOOSE k \in inked : \A m \in inked : m <= k

FirstTokenStart(text) ==
    CHOOSE k \in TokenOffsets(text) : \A m \in TokenOffsets(text) : k <= m

CeilDiv(a, b) == (a + b - 1) \div b

\* C14: the recorded word offsets are strictly increasing, the buffer holds
\* each word at its recorded offset, they are the true offsets of the tokens,
\* and every chunk's char_span runs from the offset of its first token to the
\* end of its last token: start < end, and the buffer slice [start, end)
\* begins with the chunk's first token and ends with its last one.
C14_SpansAreTrueOffsets ==
    (Returned /\ TokenCount(doc.raw_text) > 0) =>
        LET text == doc.raw_text
            words == Split(text)
            starts == WordStarts(text, words)
        IN  /\ \A k \in 1 .. Len(starts) - 1 : starts[k] < starts[k + 1]
            /\ \A k \in 1 .. Len(starts) :
                   SubSeq(text, starts[k] + 1, starts[k] + Len(words[k])) = words[k]
            /\ {starts[k] : k \in 1 .. Len(starts)} = TokenOffsets(text)
            /\ \A n \in 1 .. Len(chunkResult.value) :
                   LET c == chunkResult.value[n]
                       slice == SubSeq(text, c.char_span[1] + 1, c.char_span[2])
                       inText == Split(c.text)
                   IN  /\ c.char_span[1] < c.char_span[2]
                       /\ c.char_span[1] \in TokenOffsets(text)
                       /\ ~IsSpace(text[c.char_span[2]])
                       /\ (c.char_span[2] = Len(text)
                              \/ IsSpace(text[c.char_span[2] + 1]))
                       /\ Split(slice) = inText

C14_Witness ==
    /\ Returned
    /\ Len(chunkResult.value) >= 2
    /\ LET words == Split(doc.raw_text)
       IN  /\ Len(words) >= 3
           /\ words[1] = words[2]
           /\ words[2] = words[3]
    /\ chunkResult.value[2].char_span[1] > chunkResult.value[1].char_span[1]

\* C15: exactly one chunk ends at the last token and it is the last chunk
\* returned; every chunk after the first holds a token that the chunk before
\* it does not; with n tokens the number of chunks is 1 if n <= chunk_size,
\* else ceil((n - chunk_size) / (chunk_size - overlap)) + 1.
C15_NoDanglingWindow ==
    (Returned /\ TokenCount(doc.raw_text) > 0) =>
        LET text == doc.raw_text
            chunks == chunkResult.value
            n == TokenCount(text)
            atEnd == {m \in 1 .. Len(chunks) :
                         chunks[m].char_span[2] = LastTokenEnd(text)}
        IN  /\ atEnd = {Len(chunks)}
            /\ \A m \in 2 .. Len(chunks) :
                   \E k \in TokenOffsets(text) :
                       InSpan(k, chunks[m]) /\ ~InSpan(k, chunks[m - 1])
            /\ Len(chunks) =
                   IF n <= chunk_size_tokens THEN 1
                   ELSE CeilDiv(n - chunk_size_tokens,
                                chunk_size_tokens - chunk_overlap_tokens) + 1

C15_Witness ==
    /\ Returned
    /\ TokenCount(doc.raw_text) = 3
    /\ chunk_size_tokens = 2
    /\ chunk_overlap_tokens = 1
    /\ Len(chunkResult.value) = 2

\* C16 as stated: a buffer with at least one token and fewer tokens than
\* chunk_size yields exactly one chunk, whose text holds every token and whose
\* char_span is (0, len(buffer)).
C16_OneChunkSpanningBuffer ==
    (Returned /\ TokenCount(doc.raw_text) >= 1
              /\ TokenCount(doc.raw_text) < chunk_size_tokens) =>
        /\ Len(chunkResult.value) = 1
        /\ Split(chunkResult.value[1].text) = Split(doc.raw_text)
        /\ chunkResult.value[1].char_span = <<0, Len(doc.raw_text)>>

\* C16 amended: such a buffer yields exactly one chunk, whose text holds every
\* token and whose char_span runs from the offset of the first token to the
\* end of the last token; that is (0, len(buffer)) exactly when the buffer
\* neither begins nor ends with whitespace.
C16_OneChunkSpanningTokens ==
    (Returned /\ TokenCount(doc.raw_text) >= 1
              /\ TokenCount(doc.raw_text) < chunk_size_tokens) =>
        LET text == doc.raw_text
            span == chunkResult.value[1].char_span
        IN  /\ Len(chunkResult.value) = 1
            /\ Split(chunkResult.value[1].text) = Split(text)
            /\ chunkResult.value[1].token_estimate = TokenCount(text)
            /\ span = <<FirstTokenStart(text), LastTokenEnd(text)>>
            /\ span = <<0, Len(text)>>
                   <=> (~IsSpace(text[1]) /\ ~IsSpace(text[Len(text)]))

C16_Witness ==
    /\ Returned
    /\ TokenCount(doc.raw_text) = 2
    /\ chunk_size_tokens = 3
    /\ IsSpace(doc.raw_text[1])
    /\ Len(chunkResult.value) = 1
    /\ chunkResult.value[1].char_span[1] = 1

\* C17: for a valid window configuration make_chunks returns the empty list,
\* and raises nothing, on an empty or whitespace-only buffer, and returns at
\* least one chunk on a buffer that holds a token.
C17_EmptyBufferNoChunks ==
    (Called /\ ValidConfig) =>
        /\ Returned
        /\ TokenCount(doc.raw_text) = 0 => chunkResult.value = <<>>
        /\ TokenCount(doc.raw_text) > 0 => Len(chunkResult.value) >= 1

C17_Witness ==
    /\ Returned
    /\ Len(doc.raw_text) >= 2
    /\ TokenCount(doc.raw_text) = 0
    /\ chunkResult.value = <<>>

-----------------------------------------------------------------------------
(* Properties of ingest_video *)

Ingested == ingestCall /= None

\* the chunks the latest run built, empty when chunking did not return
IngestChunks ==
    IF Ingested /\ ingestCall[1].chunked.kind = "return"
    THEN ingestCall[1].chunked.value ELSE <<>>

\* C11: when a stage of ingest_video fails (exit status 1) the vector index is
\* afterwards as it was before the run: no collection was created and no
\* collection's items changed.
C11_FailedIngestionLeavesIndexUnchanged ==
    (Ingested /\ ingestCall[1].exit = 1) =>
        collections = ingestCall[1].before

ExampleRun ==
    /\ Ingested
    /\ ingestCall[1].transcript = ExampleTranscript
    /\ ingestCall[1].chunk_size = 3
    /\ ingestCall[1].overlap = 1

This == SubSeq(ThisIsATest, 1, 4)

Is == SubSeq(ThisIsATest, 6, 7)

\* C13 as stated: in the example the first chunk is "Hello world this" with
\* timestamp 0, and the next chunk starts at the token "is" and has
\* timestamp 2.
C13_ExampleSecondChunkAtIs ==
    ExampleRun =>
        /\ Len(IngestChunks) >= 2
        /\ IngestChunks[1].text = HelloWorld \o <<" ">> \o This
        /\ IngestChunks[1].timestamp = 0
        /\ Split(IngestChunks[2].text)[1] = Is
        /\ IngestChunks[2].timestamp = 2

\* C13 amended: in the example the first chunk is "Hello world this" with
\* timestamp 0; the next chunk starts at the token "this", the last token of
\* the first chunk, its text is "this is a" and its timestamp is 2; no chunk
\* starts at the token "is".
C13_ExampleSecondChunkAtThis ==
    ExampleRun =>
        /\ Len(IngestChunks) = 3
        /\ IngestChunks[1].text = HelloWorld \o <<" ">> \o This
        /\ IngestChunks[1].timestamp = 0
        /\ IngestChunks[2].text = SubSeq(ThisIsATest, 1, 9)
        /\ IngestChunks[2].char_span[1] = Len(HelloWorld) + 1
        /\ IngestChunks[2].timestamp = 2
        /\ \A n \in 1 .. 3 : Split(IngestChunks[n].text)[1] /= Is

C13_Witness ==
    /\ ExampleRun
    /\ Len(IngestChunks) = 3
    /\ IngestChunks[2].timestamp = 2

-----------------------------------------------------------------------------
(* Properties of search_video and get_context_window *)

Retrieved == retrievalCall /= None

RetrievalReturned(op) ==
    /\ Retrieved
    /\ retrievalCall[1].op = op
    /\ retrievalCall[1].outcome.kind = "return"

\* the items of the collection the latest retrieval call read
ReadItems ==
    retrievalCall[1].before[CollectionName(retrievalCall[1].video_id)]

\* C18: search_video with n_results = k >= 1 on a stored video returns
\* min(k, number of stored chunks) results in ascending order of distance,
\* each the text, timestamp, video_id and distance of a stored chunk, and no
\* stored chunk left out is nearer than one returned.
C18_SearchRankedTopK ==
    RetrievalReturned("search_video") =>
        LET call == retrievalCall[1]
            result == call.outcome.value
            IsItem(r, id) ==
                /\ r.text = ReadItems[id].document
                /\ r.timestamp = ReadItems[id].metadata.timestamp
                /\ r.video_id = ReadItems[id].metadata.video_id
                /\ r.distance = Distance(call.query, ReadItems[id].document)
        IN  /\ call.n_results >= 1
            /\ Len(result) = Min(call.n_results, Cardinality(DOMAIN ReadItems))
            /\ \A n \in 1 .. Len(result) - 1 :
                   result[n].distance <= result[n + 1].distance
            /\ \E ids \in [1 .. Len(result) -> DOMAIN ReadItems] :
                   /\ \A a, b \in 1 .. Len(result) : a /= b => ids[a] /= ids[b]
                   /\ \A n \in 1 .. Len(result) : IsItem(result[n], ids[n])
                   /\ \A id \in DOMAIN ReadItems :
                          (\A n \in 1 .. Len(result) : ids[n] /= id) =>
                              \A n \in 1 .. Len(result) :
                                  result[n].distance
                                      <= Distance(call.query, ReadItems[id].document)

C18_Witness ==
    /\ RetrievalReturned("search_video")
    /\ retrievalCall[1].n_results = 2
    /\ Cardinality(DOMAIN ReadItems) = 2
    /\ Len(retrievalCall[1].outcome.value) = 2
    /\ retrievalCall[1].outcome.value[1].distance
           < retrievalCall[1].outcome.value[2].distance
    /\ retrievalCall[1].outcome.value[1].timestamp
           > retrievalCall[1].outcome.value[2].timestamp

\* C19: a retrieval call leaves the set of collections and their items as
\* they were, and a call for a video that has no collection raises an error
\* instead of returning a result.
C19_RetrievalReadOnly ==
    Retrieved =>
        /\ collections = retrievalCall[1].before
        /\ (/\ retrievalCall[1].op \in {"search_video", "get_context_window"}
            /\ CollectionName(retrievalCall[1].video_id)
                   \notin DOMAIN retrievalCall[1].before)
           => retrievalCall[1].outcome.kind = "raise"

C19_Witness ==
    /\ Retrieved
    /\ retrievalCall[1].op = "get_context_window"
    /\ collections /= EmptyIndex
    /\ CollectionName(retrievalCall[1].video_id) \notin DOMAIN collections
    /\ retrievalCall[1].outcome = Raise("NotFound")

\* C20: get_context_window(video_id, t, w) returns all and only the stored
\* chunks whose timestamp lies in the closed interval [t - w, t + w], each as
\* often as it is stored, in ascending order of timestamp; the lower bound
\* clamped at 0 leaves out none of them.
C20_ContextWindowClosedInterval ==
    RetrievalReturned("get_context_window") =>
        LET call == retrievalCall[1]
            result == call.outcome.value
            low == call.timestamp - call.window_seconds
            high == call.timestamp + call.window_seconds
            Stored(text, ts) ==
                {id \in DOMAIN ReadItems :
                    /\ ReadItems[id].document = text
                    /\ ReadItems[id].metadata.timestamp = ts
                    /\ low <= ts
                    /\ ts <= high}
            Returned_(text, ts) ==
                {n \in 1 .. Len(result) :
                    result[n].text = text /\ result[n].timestamp = ts}
        IN  /\ \A n \in 1 .. Len(result) - 1 :
                   result[n].timestamp <= result[n + 1].timestamp
            /\ \A n \in 1 .. Len(result) :
                   /\ result[n].video_id = call.video_id
                   /\ Stored(result[n].text, result[n].timestamp) /= {}
            /\ \A id \in DOMAIN ReadItems :
                   LET text == ReadItems[id].document
                       ts == ReadItems[id].metadata.timestamp
                   IN  Cardinality(Stored(text, ts))
                           = Cardinality(Returned_(text, ts))

C20_Witness ==
    /\ RetrievalReturned("get_context_window")
    /\ retrievalCall[1].timestamp = 1
    /\ retrievalCall[1].window_seconds = 1
    /\ Len(retrievalCall[1].outcome.value) = 2
    /\ retrievalCall[1].outcome.value[1].timestamp = 0
    /\ retrievalCall[1].outcome.value[2].timestamp = 2
    /\ \E id \in DOMAIN ReadItems :
           /\ id[Len(id)] = 0
           /\ ReadItems[id].metadata.timestamp = 2

-----------------------------------------------------------------------------
(* Properties of PDFDocumentProcessor.chunk_document *)

\* the chunks appended so far whose window did not reach the end of the text
NonFinal ==
    {n \in 1 .. Len(pdfChunks) :
        pdfChunks[n].end_char < TextLen(document_content)}

\* the end the boundary rule asks for: just after the last '.' of the window
\* [from, from + size) when it lies beyond the middle, else the window end
RuleEnd(text, from, size) ==
    LET inside == {p \in PeriodOffsets(text) : from <= p /\ p < from + size}
        last == CHOOSE p \in inside : \A q \in inside : q <= p
    IN  IF inside /= {} /\ last > from + (size \div 2)
        THEN last + 1 ELSE from + size

\* C21: every non-final chunk ends just after the last '.' of its window when
\* that '.' lies strictly beyond start + chunk_size // 2, else at the nominal
\* window end; its raw span [start_char, end_char) is longer than half of
\* chunk_size and not longer than chunk_size.
C21_BoundaryNeverMicroChunk ==
    \A n \in NonFinal :
        LET c == pdfChunks[n]
        IN  /\ c.end_char = RuleEnd(document_content, c.start_char, self_chunk_size)
            /\ 2 * (c.end_char - c.start_char) > self_chunk_size
            /\ c.end_char - c.start_char <= self_chunk_size

\* the same for the window sizes that exceed the overlap; it holds.
C21_BoundaryOnValidSizes ==
    self_chunk_size > ChunkOverlap => C21_BoundaryNeverMicroChunk

\* C23: the window start strictly increases on every iteration of the loop
\* and never becomes negative, for every document and chunk_size argument.
C23_StartStrictlyIncreases ==
    iterations > 0 => (loop_start > prev_start /\ loop_start >= 0)

\* C26: a call that omits chunk_size chunks with the default size of 1000
\* characters, whatever sizes earlier calls on the processor were given.
C26_OmittedSizeMeansDefault ==
    (pdfPc /= "idle" /\ chunk_size_arg = 0) =>
        self_chunk_size = DefaultChunkSize

-----------------------------------------------------------------------------
(* Properties of list_available_videos *)

\* the videos whose collection is in the index
IndexedVideos == {v \in VideoIds : CollectionName(v) \in DOMAIN collections}

\* every collection holds an item, so each was filled by a successful
\* embed_and_store call
AllIngested ==
    /\ \A name \in DOMAIN collections : DOMAIN collections[name] /= {}
    /\ collections /= EmptyIndex

\* C24: after successful embed_and_store calls list_available_videos returns
\* exactly the ingested video ids, each unchanged and each once, also for an
\* id that contains "video_".
C24_ListReturnsIngestedIds ==
    (RetrievalReturned("list_available_videos") /\ AllIngested) =>
        LET result == retrievalCall[1].outcome.value
        IN  /\ {result[n] : n \in 1 .. Len(result)} = IndexedVideos
            /\ Len(result) = Cardinality(IndexedVideos)

-----------------------------------------------------------------------------
(* Properties of ingestion followed by retrieval *)

\* the latest embed_and_store call succeeded and was for the video that the
\* retrieval call, which returned, asked about
RetrievedAfterIngestion ==
    /\ Retrieved
    /\ retrievalCall[1].outcome.kind = "return"
    /\ storeCall /= None
    /\ storeCall[1].outcome = "ok"
    /\ storeCall[1].video_id = retrievalCall[1].video_id

\* C25: every result that search_video or get_context_window returns for a
\* video has the text, timestamp and video_id of a chunk of the latest
\* ingestion of that video, whether or not the video was ingested before with
\* another chunk list; and a collection created by the call holds exactly
\* len(chunks) items.
C25_ResultsFromLatestIngestion ==
    /\ (storeCall /= None /\ storeCall[1].outcome = "ok"
           /\ storeCall[1].before = None /\ ~Retrieved) =>
           Cardinality(DOMAIN collections[CollectionName(storeCall[1].video_id)])
               = Len(storeCall[1].chunks)
    /\ RetrievedAfterIngestion =>
           LET result == retrievalCall[1].outcome.value
               chunks == storeCall[1].chunks
           IN  \A n \in 1 .. Len(result) :
                   /\ result[n].video_id = storeCall[1].video_id
                   /\ \E m \in 1 .. Len(chunks) :
                          /\ chunks[m].text = result[n].text
                          /\ chunks[m].timestamp = result[n].timestamp

-----------------------------------------------------------------------------
(* Properties of the commands *)

\* C22: ingest_video runs fetch, id, chunk and store in this order and stops
\* at the first stage that raises: after a failed fetch or chunk stage
\* embed_and_store is not entered and the index is untouched; the command
\* prints its one error line and exits with status 1 exactly when a stage
\* raised.  ask_question, summarize_video and list_videos print their error
\* line and exit with status 1 exactly when something raised, else end
\* normally.
C22_CommandsExitOneOnFailure ==
    /\ Ingested =>
           LET run == ingestCall[1]
               all == <<"fetch", "id", "chunk", "store">>
               fetched == run.chunked /= NotCalled
               chunked == fetched /\ run.chunked.kind = "return"
               stored == chunked
                         /\ Len(run.chunked.value) > 0
                         /\ run.embedding = "up"
           IN  /\ run.stages = SubSeq(all, 1, Len(run.stages))
               /\ ~fetched => (run.stages = <<"fetch">> /\ run.exit = 1)
               /\ (fetched /\ ~chunked) =>
                      (run.stages = SubSeq(all, 1, 3) /\ run.exit = 1)
               /\ ~chunked => collections = run.before
               /\ chunked => run.stages = all
               /\ run.exit = (IF stored THEN 0 ELSE 1)
               /\ (run.exit = 1) <=> (run.error_line /= None)
    /\ cliCall /= None =>
           /\ (cliCall[1].exit = 1) <=> (cliCall[1].failed /= "none")
           /\ (cliCall[1].exit = 0) <=> (cliCall[1].failed = "none")
           /\ (cliCall[1].exit = 1) <=> (cliCall[1].error_line /= None)

C22_Witness ==
    /\ Ingested
    /\ ingestCall[1].chunked.kind = "raise"
    /\ ingestCall[1].exit = 1
    /\ ingestCall[1].before /= EmptyIndex
    /\ cliCall /= None
    /\ cliCall[1].command = "list"
    /\ cliCall[1].exit = 1

====
